---- MODULE Spec2Model ----
(***************************************************************************)
(* Query abstraction and time-window resolution layer of metric-memo:      *)
(* get_date_range / get_start_date (time selector resolution), LokiClient  *)
(* (query_raw, query_range, query_top, _to_ns) and QueryService /          *)
(* MetricMemo (query_prom, query_prom_raw, query_loki, query_loki_top,     *)
(* query_loki_raw).                                                        *)
(*                                                                         *)
(* Conventions.  A Python str whose characters matter is a sequence of     *)
(* one-character strings.  A Python call that may raise is an operator     *)
(* returning [exc |-> "" or the exception's class, val |-> the value].     *)
(* A datetime is a whole number of hours since 1970-01-01T00:00.  An       *)
(* arbitrary-precision int too wide for the checker is a record            *)
(* [hi, lo] denoting hi * 10^9 + lo with 0 <= lo < 10^9.                   *)
(***************************************************************************)
EXTENDS Integers, Sequences, FiniteSets, TLC

VARIABLES
    time_selection,   \* QueryService.time_selection, set at construction
    now,              \* the wall clock read by datetime.now()
    resp,             \* the HTTP response the backend gives to the next request
    last,             \* the call most recently made and what it returned
    jinja_globals     \* start_date / end_date of jinja_environment.globals

vars == <<time_selection, now, resp, last, jinja_globals>>

----------------------------------------------------------------------------
\* Bounds of the model.

MaxSelLen == 3
MaxResults == 2
MaxTicks == 1

----------------------------------------------------------------------------
\* Generic helpers.

RECURSIVE SeqsUpTo(_, _)
SeqsUpTo(S, n) ==
    IF n = 0 THEN {<< >>}
    ELSE LET shorter == SeqsUpTo(S, n - 1)
         IN  shorter \cup {Append(s, x) : s \in {t \in shorter : Len(t) = n - 1}, x \in S}

SetMax(S) == CHOOSE x \in S : \A y \in S : y <= x
SetMin(S) == CHOOSE x \in S : \A y \in S : x <= y

Ok(v) == [exc |-> "", val |-> v]
Raise(e) == [exc |-> e, val |-> << >>]

----------------------------------------------------------------------------
\* Characters and int().

DigitChars == {"0", "1", "2", "3", "4", "5", "6", "7", "8", "9"}
WordChars == DigitChars \cup {"h", "d", "w", "x", "y", "_"}

DigitVal(c) ==
    CASE c = "0" -> 0 [] c = "1" -> 1 [] c = "2" -> 2 [] c = "3" -> 3
      [] c = "4" -> 4 [] c = "5" -> 5 [] c = "6" -> 6 [] c = "7" -> 7
      [] c = "8" -> 8 [] c = "9" -> 9

IsDigits(s) == Len(s) > 0 /\ \A i \in 1..Len(s) : s[i] \in DigitChars

RECURSIVE DecimalValue(_)
DecimalValue(s) ==
    IF Len(s) = 0 THEN 0
    ELSE 10 * DecimalValue(SubSeq(s, 1, Len(s) - 1)) + DigitVal(s[Len(s)])

\* int(s) for a str s: ValueError unless s is a run of digits (signs, blanks
\* and underscores, which int() also accepts, are not among the inputs).
py_int(s) == IF IsDigits(s) THEN Ok(DecimalValue(s)) ELSE Raise("ValueError")

----------------------------------------------------------------------------
\* Time selector resolution.

\* re.search(r"(?P<num>\d+)(?P<unit>\w)", selector): the leftmost start at
\* which a digit run followed by one word character matches; \d+ is greedy
\* and gives back digits until \w can match.
MatchEnds(s, i) ==
    {k \in i..(Len(s) - 1) :
        /\ \A m \in i..k : s[m] \in DigitChars
        /\ s[k + 1] \in WordChars}

TIME_SELECTION_REGEX_search(s) ==
    LET starts == {i \in 1..Len(s) : MatchEnds(s, i) # {}}
    IN  IF starts = {} THEN [matched |-> FALSE, num |-> << >>, unit |-> ""]
        ELSE LET i == SetMin(starts)
                 k == SetMax(MatchEnds(s, i))
             IN  [matched |-> TRUE, num |-> SubSeq(s, i, k), unit |-> s[k + 1]]

\* datetime.min (0001-01-01T00:00) in hours since 1970-01-01T00:00; a
\* datetime arithmetic result below it raises OverflowError.
DateTimeMin == -17259888
HoursPerDay == 24

datetime_sub(end_date, hours) ==
    IF end_date - hours < DateTimeMin THEN Raise("OverflowError")
    ELSE Ok(end_date - hours)

\* get_start_date with timedelta(hours=number) in both cases.
get_start_date_HoursForDays(end_date, number, unit) ==
    CASE unit = "h" -> datetime_sub(end_date, number)
      [] unit = "d" -> datetime_sub(end_date, number)
      [] OTHER -> Raise("ValueError")

\* get_start_date with a case "w" added for weeks.
get_start_date_Weeks(end_date, number, unit) ==
    CASE unit = "h" -> datetime_sub(end_date, number)
      [] unit = "d" -> datetime_sub(end_date, number * HoursPerDay)
      [] unit = "w" -> datetime_sub(end_date, number * 7 * HoursPerDay)
      [] OTHER -> Raise("ValueError")

get_start_date(end_date, number, unit) ==
    CASE unit = "h" -> datetime_sub(end_date, number)
      [] unit = "d" -> datetime_sub(end_date, number * HoursPerDay)
      [] OTHER -> Raise("ValueError")

get_date_range(selector, clock) ==
    LET end_date == clock
        match == TIME_SELECTION_REGEX_search(selector)
    IN  IF ~match.matched THEN Raise("RuntimeError")
        ELSE LET number == py_int(match.num)
                 start == get_start_date(end_date, number.val, match.unit)
             IN  IF start.exc # "" THEN Raise(start.exc)
                 ELSE Ok([start |-> start.val, end |-> end_date])

----------------------------------------------------------------------------
\* Python values returned to the caller.

PyNone == [kind |-> "None", val |-> << >>]        \* no call made yet
PyList(items) == [kind |-> "list", val |-> items]
PyInt(n) == [kind |-> "int", val |-> n]
PyStr(parts) == [kind |-> "str", val |-> parts]   \* the concatenation of parts

----------------------------------------------------------------------------
\* float() and int() of a result value.

\* float(s) for a str s of the form [-]digits[.digits]: the value
\* (-1)^neg * (whole + 0.frac); ValueError for any other input.
py_float(s) ==
    LET neg == Len(s) > 0 /\ s[1] = "-"
        body == IF neg THEN Tail(s) ELSE s
        dots == {i \in 1..Len(body) : body[i] = "."}
    IN  IF dots = {} THEN
            IF IsDigits(body)
            THEN Ok([neg |-> neg, whole |-> DecimalValue(body), frac |-> << >>])
            ELSE Raise("ValueError")
        ELSE LET i == SetMin(dots)
                 ip == SubSeq(body, 1, i - 1)
                 fp == SubSeq(body, i + 1, Len(body))
             IN  IF IsDigits(ip) /\ IsDigits(fp)
                 THEN Ok([neg |-> neg, whole |-> DecimalValue(ip), frac |-> fp])
                 ELSE Raise("ValueError")

\* int_of_float rounding down (math.floor) instead.
int_of_float_Floor(f) ==
    IF f.neg /\ \E i \in 1..Len(f.frac) : f.frac[i] # "0" THEN 0 - f.whole - 1
    ELSE IF f.neg THEN 0 - f.whole ELSE f.whole

\* int(f) for a float f: truncation toward zero.
int_of_float(f) == IF f.neg THEN 0 - f.whole ELSE f.whole

\* int(float(item["value"][1])) for a result item.
item_count(item) ==
    IF ~item.hasValue THEN Raise("KeyError")
    ELSE LET f == py_float(item.value)
         IN  IF f.exc # "" THEN Raise(f.exc) ELSE Ok(int_of_float(f.val))

\* d.get(key, default) for a label map d, a set of <<key, value>> pairs.
dict_get(d, key, default) ==
    IF \E p \in d : p[1] = key THEN (CHOOSE p \in d : p[1] = key)[2] ELSE default

----------------------------------------------------------------------------
\* Timestamps and the nanosecond conversion.

NsExp == 9              \* 1_000_000_000 == 10^9
SecondsPerHour == 3600

RECURSIVE Pow10(_)
Pow10(e) == IF e = 0 THEN 1 ELSE 10 * Pow10(e - 1)

\* n * 10^e for 0 <= n and 0 <= e <= 9, as [hi, lo] with value hi * 10^9 + lo.
TimesPow10(n, e) ==
    [hi |-> n \div Pow10(9 - e), lo |-> (n % Pow10(9 - e)) * Pow10(e)]

\* datetime.timestamp(): epoch seconds (whole hours, local offset zero).
datetime_timestamp(dt) == dt * SecondsPerHour

\* _to_ns scaling by 1_000_000 (microseconds).
to_ns_Micro(ts) ==
    CASE ts.type = "None" -> Ok([kind |-> "None", ns |-> [hi |-> 0, lo |-> 0]])
      [] ts.type = "int" -> Ok([kind |-> "int", ns |-> TimesPow10(ts.v, 6)])
      [] ts.type = "datetime" ->
            Ok([kind |-> "int", ns |-> TimesPow10(datetime_timestamp(ts.v), 6)])
      [] OTHER -> Raise("TypeError")

\* LokiClient._to_ns.  A timestamp argument is [type, v]: None, an int of
\* seconds, a datetime, or a str.  The converted value is [kind, ns]; kind
\* "None" is a parameter that is not transmitted.
to_ns(ts) ==
    CASE ts.type = "None" -> Ok([kind |-> "None", ns |-> [hi |-> 0, lo |-> 0]])
      [] ts.type = "int" -> Ok([kind |-> "int", ns |-> TimesPow10(ts.v, NsExp)])
      [] ts.type = "datetime" ->
            Ok([kind |-> "int", ns |-> TimesPow10(datetime_timestamp(ts.v), NsExp)])
      [] OTHER -> Raise("TypeError")

TsNone == [type |-> "None", v |-> 0]
TsInt(s) == [type |-> "int", v |-> s]
TsDatetime(dt) == [type |-> "datetime", v |-> dt]
TsStr == [type |-> "str", v |-> 0]

----------------------------------------------------------------------------
\* The HTTP exchange.

\* A response is [transport, status, body]; transport "fail" stands for
\* requests.get raising (connection error, timeout).  A body is
\* [shape, result]: "html" is not JSON; "array" is a JSON array; "nodata" an
\* object without "data"; "datanull" has data: null; "noresult" has a data
\* object without "result"; "envelope" is {data: {result: [...]}} with the
\* list in result.
requests_get(r) == IF r.transport = "fail" THEN Raise("ConnectionError") ELSE Ok(r)

\* requests.Response.ok: raise_for_status() raises for 400 <= status < 600.
response_ok(r) == ~(400 <= r.status /\ r.status < 600)

response_json(r) == IF r.body.shape = "html" THEN Raise("JSONDecodeError") ELSE Ok(r.body)

\* payload.get('data', {}).get('result', [])
payload_result(body) ==
    CASE body.shape \in {"array", "datanull"} -> Raise("AttributeError")
      [] body.shape \in {"nodata", "noresult"} -> Ok(PyList(<< >>))
      [] OTHER -> Ok(PyList(body.result))

\* What a call that catches every exception hands back to the model: its
\* return value and the requests it issued.
Outcome(ret, sent) == [exc |-> "", ret |-> ret, sent |-> sent]

InstantTimeout == 15
RangeTimeout == 30

\* loki_exchange issuing the request a second time when the first attempt
\* raises or is refused.
loki_exchange_RetryOnce(r, req) ==
    LET got == requests_get(r)
    IN  IF got.exc # "" THEN Outcome(PyList(<< >>), <<req, req>>)
        ELSE IF ~response_ok(r) THEN Outcome(PyList(<< >>), <<req, req>>)
        ELSE LET payload == response_json(r)
             IN  IF payload.exc # "" THEN Outcome(PyList(<< >>), <<req>>)
                 ELSE LET res == payload_result(payload.val)
                      IN  IF res.exc # "" THEN Outcome(PyList(<< >>), <<req>>)
                          ELSE Outcome(res.val, <<req>>)

\* The part of query_raw / query_range after params is built.
loki_exchange(r, req) ==
    LET got == requests_get(r)
    IN  IF got.exc # "" THEN Outcome(PyList(<< >>), <<req>>)
        ELSE IF ~response_ok(r) THEN Outcome(PyList(<< >>), <<req>>)
        ELSE LET payload == response_json(r)
             IN  IF payload.exc # "" THEN Outcome(PyList(<< >>), <<req>>)
                 ELSE LET res == payload_result(payload.val)
                      IN  IF res.exc # "" THEN Outcome(PyList(<< >>), <<req>>)
                          ELSE Outcome(res.val, <<req>>)

\* LokiClient.query_raw.  limit is [has, v]; direction is "" when None.
query_raw(r, logql, time, limit, direction) ==
    LET t == IF time.type = "None" THEN to_ns(TsNone) ELSE to_ns(time)
    IN  IF t.exc # "" THEN Outcome(PyList(<< >>), << >>)
        ELSE loki_exchange(r,
                [endpoint |-> "/loki/api/v1/query",
                 params |-> [query |-> logql, time |-> t.val, limit |-> limit,
                             direction |-> direction],
                 timeout |-> InstantTimeout])

\* LokiClient.query_range.
query_range(r, logql, start, end, limit, direction) ==
    LET s == to_ns(start)
        e == to_ns(end)
    IN  IF s.exc # "" \/ e.exc # "" THEN Outcome(PyList(<< >>), << >>)
        ELSE loki_exchange(r,
                [endpoint |-> "/loki/api/v1/query_range",
                 params |-> [query |-> logql, start |-> s.val, end |-> e.val,
                             limit |-> [has |-> TRUE, v |-> limit],
                             direction |-> direction],
                 timeout |-> RangeTimeout])

NoLimit == [has |-> FALSE, v |-> 0]

----------------------------------------------------------------------------
\* Result objects of the backends' JSON.

\* One element of data.result: a JSON object that may carry the keys metric
\* and value (an instant-query series; value is the str at value[1]) and
\* stream and values (a range-query stream; values is a list of entries,
\* each a [timestamp, line] pair or, with pair FALSE, something else).
Series(metric, value) ==
    [hasMetric |-> TRUE, metric |-> metric, hasValue |-> TRUE, value |-> value,
     hasStream |-> FALSE, stream |-> {}, hasValues |-> FALSE, values |-> << >>]

Stream(labels, values) ==
    [hasMetric |-> FALSE, metric |-> {}, hasValue |-> FALSE, value |-> << >>,
     hasStream |-> TRUE, stream |-> labels, hasValues |-> TRUE, values |-> values]

Entry(ts, line) == [pair |-> TRUE, ts |-> ts, line |-> line]

\* logql of query_top and of query_loki: the f-string's fragments in order.
topk_logql(limit, label, selector, window) ==
    <<"topk(", limit, ", sum by (", label, ") (count_over_time(", selector, " [",
      window, "])))">>

\* top_entry with .get(label) and no default.
top_entry_NoDefault(item, label) ==
    IF ~item.hasMetric THEN Raise("KeyError")
    ELSE LET count == item_count(item)
         IN  IF count.exc # "" THEN Raise(count.exc)
             ELSE Ok([name |-> dict_get(item.metric, label, "None"),
                      count |-> count.val])

\* The loop body of query_top: one result item to {"name", "count"}.
top_entry(item, label) ==
    IF ~item.hasMetric THEN Raise("KeyError")
    ELSE LET count == item_count(item)
         IN  IF count.exc # "" THEN Raise(count.exc)
             ELSE Ok([name |-> dict_get(item.metric, label, "Unknown"),
                      count |-> count.val])

\* The loop body of query_loki: one result item to {"count", "message"}.
message_entry(item) ==
    LET count == item_count(item)
    IN  IF count.exc # "" THEN Raise(count.exc)
        ELSE IF ~item.hasMetric THEN Raise("KeyError")
        ELSE Ok([count |-> count.val,
                 message |-> dict_get(item.metric, "message", "No message label found")])

\* CollectOrRaise with the try/except inside the loop: an element whose
\* mapping raises is skipped and the rest is kept.
CollectOrRaise_SkipBad(mapped) ==
    LET good == {i \in 1..Len(mapped) : mapped[i].exc = ""}
        nth[k \in 0..Len(mapped)] ==
            IF k = 0 THEN 0 ELSE SetMin({i \in good : i > nth[k - 1]} \cup {Len(mapped) + 1})
    IN  Ok([k \in 1..Cardinality(good) |-> mapped[nth[k]].val])

\* A loop that appends one mapped element per iteration inside try/except:
\* given each element's mapping, the list of mapped values, or the exception
\* of the first element whose mapping raises.
CollectOrRaise(mapped) ==
    LET bad == {i \in 1..Len(mapped) : mapped[i].exc # ""}
    IN  IF bad # {} THEN Raise(mapped[SetMin(bad)].exc)
        ELSE Ok([i \in 1..Len(mapped) |-> mapped[i].val])

\* LokiClient.query_top.
query_top(r, selector, label, limit, window) ==
    LET logql == topk_logql(limit, label, selector, window)
        raw == query_raw(r, logql, TsNone, NoLimit, "")
        results == raw.ret.val
        parsed == CollectOrRaise([i \in 1..Len(results) |-> top_entry(results[i], label)])
    IN  IF parsed.exc # "" THEN Outcome(PyList(<< >>), raw.sent)
        ELSE Outcome(PyList(parsed.val), raw.sent)

----------------------------------------------------------------------------
\* sorted(..., reverse=True) and list.sort(reverse=True): a stable sort, so
\* elements with equal keys keep their order.

\* OrderDesc without reverse=True: the stable ascending order.
RECURSIVE OrderAsc(_)
OrderAsc(keys) ==
    IF Len(keys) = 0 THEN << >>
    ELSE LET n == Len(keys)
             before == OrderAsc(SubSeq(keys, 1, n - 1))
             after == {i \in 1..Len(before) : keys[before[i]] <= keys[n]}
             k == IF after = {} THEN 0 ELSE SetMax(after)
         IN  SubSeq(before, 1, k) \o <<n>> \o SubSeq(before, k + 1, Len(before))

\* The stable descending order of a list of keys, as a list of positions.
RECURSIVE OrderDesc(_)
OrderDesc(keys) ==
    IF Len(keys) = 0 THEN << >>
    ELSE LET n == Len(keys)
             before == OrderDesc(SubSeq(keys, 1, n - 1))
             after == {i \in 1..Len(before) : keys[before[i]] >= keys[n]}
             k == IF after = {} THEN 0 ELSE SetMax(after)
         IN  SubSeq(before, 1, k) \o <<n>> \o SubSeq(before, k + 1, Len(before))

\* SortedDesc with the sort left out.
SortedDesc_Unsorted(s, keys) == s

\* s sorted by keys (keys[i] is the key of s[i]), descending.
SortedDesc(s, keys) ==
    LET order == OrderDesc(keys)
    IN  [i \in 1..Len(s) |-> s[order[i]]]

RECURSIVE Concat(_)
Concat(ss) == IF Len(ss) = 0 THEN << >> ELSE Head(ss) \o Concat(Tail(ss))

----------------------------------------------------------------------------
\* QueryService (and MetricMemo, whose five methods are the same code).

\* PrometheusConnect.custom_query: raises unless the status is 200 and the
\* body is JSON holding data.result, which it returns.
custom_query(r) ==
    IF r.transport = "fail" THEN Raise("ConnectionError")
    ELSE IF r.status # 200 THEN Raise("PrometheusApiClientException")
    ELSE IF r.body.shape = "html" THEN Raise("JSONDecodeError")
    ELSE IF r.body.shape \in {"array", "datanull"} THEN Raise("TypeError")
    ELSE IF r.body.shape \in {"nodata", "noresult"} THEN Raise("KeyError")
    ELSE Ok(PyList(r.body.result))

prom_request(query) ==
    [endpoint |-> "/api/v1/query", params |-> [query |-> query], timeout |-> 0]

ErrorString(e) == PyStr(<<"Error: ", e>>)

\* QueryService.query_prom
query_prom(r, query) ==
    LET res == custom_query(r)
        sent == <<prom_request(query)>>
    IN  IF res.exc # "" THEN Outcome(ErrorString(res.exc), sent)
        ELSE IF Len(res.val.val) = 0 THEN Outcome(PyInt(0), sent)
        ELSE LET count == item_count(res.val.val[1])
             IN  IF count.exc # "" THEN Outcome(ErrorString(count.exc), sent)
                 ELSE Outcome(PyInt(count.val), sent)

\* QueryService.query_prom_raw
query_prom_raw(r, query) ==
    LET res == custom_query(r)
        sent == <<prom_request(query)>>
    IN  IF res.exc # "" THEN Outcome(PyList(<< >>), sent) ELSE Outcome(res.val, sent)

\* query_loki with the window fixed to 7d instead of self.time_selection.
query_loki_SevenDays(r, selection, query) ==
    LET full_query == topk_logql(5, "message", query, <<"7", "d">>)
        raw == query_raw(r, full_query, TsNone, NoLimit, "")
        results == raw.ret.val
        parsed == CollectOrRaise([i \in 1..Len(results) |-> message_entry(results[i])])
    IN  IF parsed.exc # "" THEN Outcome(PyList(<< >>), raw.sent)
        ELSE Outcome(PyList(parsed.val), raw.sent)

\* QueryService.query_loki
query_loki(r, selection, query) ==
    LET full_query == topk_logql(5, "message", query, selection)
        raw == query_raw(r, full_query, TsNone, NoLimit, "")
        results == raw.ret.val
        parsed == CollectOrRaise([i \in 1..Len(results) |-> message_entry(results[i])])
    IN  IF parsed.exc # "" THEN Outcome(PyList(<< >>), raw.sent)
        ELSE Outcome(PyList(parsed.val), raw.sent)

\* QueryService.query_loki_top
query_loki_top(r, selection, selector, label, limit) ==
    LET results == query_top(r, selector, label, limit, selection)
        entries == results.ret.val
        counts == [i \in 1..Len(entries) |-> entries[i].count]
    IN  Outcome(PyList(SortedDesc(entries, counts)), results.sent)

\* The inner loop of query_loki_raw over one stream.
stream_lines(stream) ==
    LET labels == IF stream.hasStream THEN stream.stream ELSE {}
        values == IF stream.hasValues THEN stream.values ELSE << >>
        Line(v) ==
            IF ~v.pair THEN Raise("ValueError")
            ELSE LET ts == py_int(v.ts)
                 IN  IF ts.exc # "" THEN Raise(ts.exc)
                     ELSE Ok([timestamp |-> ts.val, message |-> v.line, labels |-> labels])
    IN  CollectOrRaise([i \in 1..Len(values) |-> Line(values[i])])

\* query_loki_raw stamping every entry with the time of the call instead of
\* the line's own timestamp.
query_loki_raw_StampedNow(r, selection, clock, logql, limit) ==
    LET range == get_date_range(selection, clock)
    IN  IF range.exc # "" THEN Outcome(PyList(<< >>), << >>)
        ELSE LET results == query_range(r, logql, TsDatetime(range.val.start),
                                        TsDatetime(range.val.end), limit, "BACKWARD")
                 streams == results.ret.val
                 perStream ==
                    CollectOrRaise([i \in 1..Len(streams) |-> stream_lines(streams[i])])
                 flattened == IF perStream.exc # "" THEN << >> ELSE Concat(perStream.val)
             IN  IF perStream.exc # "" THEN Outcome(PyList(<< >>), results.sent)
                 ELSE Outcome(PyList([i \in 1..Len(flattened) |->
                                         [flattened[i] EXCEPT !.timestamp = clock]]),
                              results.sent)

\* QueryService.query_loki_raw
query_loki_raw(r, selection, clock, logql, limit) ==
    LET range == get_date_range(selection, clock)
    IN  IF range.exc # "" THEN Outcome(PyList(<< >>), << >>)
        ELSE LET results == query_range(r, logql, TsDatetime(range.val.start),
                                        TsDatetime(range.val.end), limit, "BACKWARD")
                 streams == results.ret.val
                 perStream ==
                    CollectOrRaise([i \in 1..Len(streams) |-> stream_lines(streams[i])])
                 flattened == IF perStream.exc # "" THEN << >> ELSE Concat(perStream.val)
                 timestamps == [i \in 1..Len(flattened) |-> flattened[i].timestamp]
             IN  IF perStream.exc # "" THEN Outcome(PyList(<< >>), results.sent)
                 ELSE Outcome(PyList(SortedDesc(flattened, timestamps)), results.sent)

----------------------------------------------------------------------------
\* Inputs: the backend's responses and the callers' arguments.

SeriesA == Series({<<"message", "a">>, <<"country", "DE">>}, <<"3", ".", "0">>)
SeriesB == Series({}, <<"1", ".", "7">>)
SeriesC == Series({<<"message", "b">>}, <<"-", "2", ".", "5">>)
SeriesNoMetric == [Series({}, <<"4", ".", "0">>) EXCEPT !.hasMetric = FALSE]
SeriesNoValue == [Series({<<"message", "c">>}, << >>) EXCEPT !.hasValue = FALSE]
SeriesBadValue == Series({<<"message", "d">>}, <<"a", "b", "c">>)

WellFormedSeries == {SeriesA, SeriesB, SeriesC}
SeriesObjects == WellFormedSeries \cup {SeriesNoMetric, SeriesNoValue, SeriesBadValue}

StreamX == Stream({<<"job", "x">>},
                  <<Entry(<<"1", "0", "0">>, "l1"), Entry(<<"3", "0", "0">>, "l3")>>)
StreamY == Stream({<<"job", "y">>}, <<Entry(<<"2", "0", "0">>, "l2")>>)
StreamNoLabels ==
    [Stream({}, <<Entry(<<"3", "0", "0">>, "l4")>>) EXCEPT !.hasStream = FALSE]
StreamNoValues == [Stream({<<"job", "z">>}, << >>) EXCEPT !.hasValues = FALSE]
StreamBadTs == Stream({<<"job", "x">>}, <<Entry(<<"1", "x">>, "l5")>>)
StreamBadPair ==
    Stream({<<"job", "y">>}, <<[pair |-> FALSE, ts |-> <<"1">>, line |-> ""]>>)

WellFormedStreams == {StreamX, StreamY}
StreamObjects ==
    WellFormedStreams \cup {StreamNoLabels, StreamNoValues, StreamBadTs, StreamBadPair}

ResultLists == SeqsUpTo(SeriesObjects, MaxResults) \cup SeqsUpTo(StreamObjects, MaxResults)

Body(shape, result) == [shape |-> shape, result |-> result]

Bodies ==
    {Body(sh, << >>) : sh \in {"html", "array", "nodata", "datanull", "noresult"}}
        \cup {Body("envelope", l) : l \in ResultLists}

Statuses == {100, 200, 301, 404}

TransportFail == [transport |-> "fail", status |-> 0, body |-> Body("html", << >>)]

\* What a response with a status other than 200 carries: an error page, or
\* a result envelope all the same.
StatusBodies ==
    {Body("html", << >>), Body("envelope", << >>), Body("envelope", <<SeriesA, SeriesB>>),
     Body("envelope", <<StreamX, StreamY>>)}

Responses ==
    {TransportFail}
        \cup {[transport |-> "ok", status |-> 200, body |-> b] : b \in Bodies}
        \cup {[transport |-> "ok", status |-> st, body |-> b] :
                st \in Statuses \ {200}, b \in StatusBodies}

\* 2026-11-06T00:00, in hours since 1970-01-01T00:00.
NowBase == 20763 * 24

TopArgs == {<<"message", 5>>, <<"country", 10>>}   \* (label, limit)
LogQuery == "{job=\"app\"}"
PromQuery == "up"
DefaultRawLimit == 50

SelectorChars == {"0", "2", "7", "h", "d", "w", "_", "-"}
LongSelectors == {<<"9", "9", "9", "9", "9", "9", "d">>}
Selectors == SeqsUpTo(SelectorChars, MaxSelLen) \cup LongSelectors

ServiceSelections == {<<"2", "4", "h">>, <<"7", "w">>, <<"x", "7", "d", "y">>}

Timestamps == {TsNone, TsInt(0), TsInt(1700000000), TsDatetime(NowBase), TsStr}

----------------------------------------------------------------------------
\* State machine.

\* Whether the call before this one was the same call (same operation, same
\* arguments, same backend response), and the clock at that call.
NotBefore == [seen |-> FALSE, now |-> 0]

NoCall ==
    [op |-> "none", args |-> << >>, resp |-> TransportFail, now |-> 0,
     exc |-> "", ret |-> PyNone, sent |-> << >>, before |-> NotBefore]

Before(op, args) ==
    IF last.op = op /\ last.args = args /\ last.resp = resp
    THEN [seen |-> TRUE, now |-> last.now]
    ELSE NotBefore

Call(op, args, out) ==
    [op |-> op, args |-> args, resp |-> resp, now |-> now,
     exc |-> out.exc, ret |-> out.ret, sent |-> out.sent, before |-> Before(op, args)]

\* A QueryService on its own has no template environment.
NoGlobals == [set |-> FALSE, start_date |-> 0, end_date |-> 0]

Init ==
    /\ time_selection \in ServiceSelections
    /\ now = NowBase
    /\ resp \in Responses
    /\ last = NoCall
    /\ jinja_globals = NoGlobals

\* The template calls query_prom(query).
QueryProm ==
    /\ last' = Call("query_prom", <<PromQuery>>, query_prom(resp, PromQuery))
    /\ UNCHANGED <<time_selection, now, resp, jinja_globals>>

\* The template calls query_prom_raw(query).
QueryPromRaw ==
    /\ last' = Call("query_prom_raw", <<PromQuery>>, query_prom_raw(resp, PromQuery))
    /\ UNCHANGED <<time_selection, now, resp, jinja_globals>>

\* The template calls query_loki(query).
QueryLoki ==
    /\ last' = Call("query_loki", <<LogQuery>>, query_loki(resp, time_selection, LogQuery))
    /\ UNCHANGED <<time_selection, now, resp, jinja_globals>>

\* The template calls query_loki_top(selector, label, limit).
QueryLokiTop ==
    \E a \in TopArgs :
        /\ last' = Call("query_loki_top", <<LogQuery, a[1], a[2]>>,
                        query_loki_top(resp, time_selection, LogQuery, a[1], a[2]))
        /\ UNCHANGED <<time_selection, now, resp, jinja_globals>>

\* The template calls query_loki_raw(logql, limit).
QueryLokiRaw ==
    /\ last' = Call("query_loki_raw", <<LogQuery, DefaultRawLimit>>,
                    query_loki_raw(resp, time_selection, now, LogQuery, DefaultRawLimit))
    /\ UNCHANGED <<time_selection, now, resp, jinja_globals>>

\* Time passes between two calls.
Tick ==
    /\ now < NowBase + MaxTicks
    /\ now' = now + 1
    /\ UNCHANGED <<time_selection, resp, last, jinja_globals>>

\* The backend becomes unreachable.
BackendFails ==
    /\ resp # TransportFail
    /\ resp' = TransportFail
    /\ UNCHANGED <<time_selection, now, last, jinja_globals>>

Next ==
    \/ QueryProm
    \/ QueryPromRaw
    \/ QueryLoki
    \/ QueryLokiTop
    \/ QueryLokiRaw
    \/ Tick
    \/ BackendFails

Spec == Init /\ [][Next]_vars

\* LokiClient called directly.
InitGateway ==
    /\ time_selection = <<"7", "d">>
    /\ now = NowBase
    /\ resp \in Responses
    /\ last = NoCall
    /\ jinja_globals = NoGlobals

QueryRaw ==
    \E time \in Timestamps, opt \in {<<NoLimit, "">>, <<[has |-> TRUE, v |-> 5], "FORWARD">>} :
        /\ last' = Call("query_raw", <<LogQuery, time, opt[1], opt[2]>>,
                        query_raw(resp, LogQuery, time, opt[1], opt[2]))
        /\ UNCHANGED <<time_selection, now, resp, jinja_globals>>

QueryRange ==
    \E start \in Timestamps, end \in Timestamps \ {TsNone, TsInt(0)} :
        /\ last' = Call("query_range", <<LogQuery, start, end>>,
                        query_range(resp, LogQuery, start, end, 100, "BACKWARD"))
        /\ UNCHANGED <<time_selection, now, resp, jinja_globals>>

QueryTop ==
    \E a \in TopArgs :
        /\ last' = Call("query_top", <<LogQuery, a[1], a[2], time_selection>>,
                        query_top(resp, LogQuery, a[1], a[2], time_selection))
        /\ UNCHANGED <<time_selection, now, resp, jinja_globals>>

NextGateway ==
    \/ QueryRaw
    \/ QueryRange
    \/ QueryTop
    \/ BackendFails

SpecGateway == InitGateway /\ [][NextGateway]_vars

\* get_date_range called on its own.
InitResolve ==
    /\ time_selection \in Selectors
    /\ now = NowBase
    /\ resp = TransportFail
    /\ last = NoCall
    /\ jinja_globals = NoGlobals

Resolve ==
    LET range == get_date_range(time_selection, now)
    IN  /\ last' = [NoCall EXCEPT !.op = "get_date_range", !.args = <<time_selection>>,
                                  !.now = now, !.exc = range.exc, !.ret = range.val]
        /\ UNCHANGED <<time_selection, now, resp, jinja_globals>>

NextResolve ==
    \/ Resolve
    \/ Tick

SpecResolve == InitResolve /\ [][NextResolve]_vars

\* QueryService and LokiClient together: the template calls the service and
\* other code calls the client directly.
CoreSelections == {<<"2", "4", "h">>, <<"7", "w">>}

InitCore ==
    /\ time_selection \in CoreSelections
    /\ now = NowBase
    /\ resp \in Responses
    /\ last = NoCall
    /\ jinja_globals = NoGlobals

NextCore ==
    \/ QueryProm
    \/ QueryPromRaw
    \/ QueryLoki
    \/ QueryLokiTop
    \/ QueryLokiRaw
    \/ QueryRaw
    \/ QueryRange
    \/ QueryTop
    \/ BackendFails

SpecCore == InitCore /\ [][NextCore]_vars

\* MetricMemo: __init__ ends with setup_jinja_env, which resolves the window
\* once and stores it in the template globals; a selector get_date_range
\* rejects makes __init__ raise, so no such object exists.  The template
\* then calls the five query methods.
setup_jinja_env(selection, clock) ==
    LET range == get_date_range(selection, clock)
    IN  IF range.exc # "" THEN Raise(range.exc)
        ELSE Ok([set |-> TRUE, start_date |-> range.val.start, end_date |-> range.val.end])

RunSelections == ServiceSelections \cup {<<"7", "d">>}

InitRun ==
    /\ time_selection \in RunSelections
    /\ now = NowBase
    /\ resp \in Responses
    /\ last = NoCall
    /\ setup_jinja_env(time_selection, now).exc = ""
    /\ jinja_globals = setup_jinja_env(time_selection, now).val

SpecRun == InitRun /\ [][Next]_vars

----------------------------------------------------------------------------
\* Properties of get_date_range (checked under SpecResolve).

Resolved == last.op = "get_date_range"

\* The selector is exactly <integer><unit> with unit h or d.
PlainSelector(s) ==
    /\ Len(s) >= 2
    /\ IsDigits(SubSeq(s, 1, Len(s) - 1))
    /\ s[Len(s)] \in {"h", "d"}

\* The hours a plain selector denotes.
PlainHours(s) ==
    DecimalValue(SubSeq(s, 1, Len(s) - 1)) * (IF s[Len(s)] = "d" THEN 24 ELSE 1)

\* C2 as stated: for every selector <integer><unit> with unit h or d and
\* every now, get_date_range returns end = now and start = now minus exactly
\* <integer> hours (h) or <integer> times 24 hours (d).
C2_EveryPlainSelectorResolves ==
    (Resolved /\ PlainSelector(last.args[1])) =>
        /\ last.exc = ""
        /\ last.ret.end = last.now
        /\ last.ret.start = last.now - PlainHours(last.args[1])

\* C2 amended: the same, for every plain selector whose start is not earlier
\* than datetime.min; a plain selector reaching further back raises
\* OverflowError and returns no window.
C2_PlainSelectorWindow ==
    (Resolved /\ PlainSelector(last.args[1])) =>
        IF last.now - PlainHours(last.args[1]) >= DateTimeMin
        THEN /\ last.exc = ""
             /\ last.ret.end = last.now
             /\ last.ret.start = last.now - PlainHours(last.args[1])
        ELSE last.exc = "OverflowError"

\* "27d" resolved after the clock has advanced: 648 hours before now.
C2_Witness ==
    /\ Resolved
    /\ last.args[1] = <<"2", "7", "d">>
    /\ last.now = NowBase + 1
    /\ last.exc = ""
    /\ last.ret = [start |-> NowBase + 1 - 648, end |-> NowBase + 1]

\* The unit of the leftmost match of a digit run followed by one word
\* character, stated without the regex engine: the match starts at the first
\* digit that begins a run of two or more digits or a run followed by a word
\* character; its unit is the character after the run if that is a word
\* character, and the run's last digit otherwise.  "" when nothing matches.
RunEnd(s, i) == SetMax({j \in i..Len(s) : \A m \in i..j : s[m] \in DigitChars})

LeftmostUnit(s) ==
    LET follows(i) == RunEnd(s, i) < Len(s) /\ s[RunEnd(s, i) + 1] \in WordChars
        starts == {i \in 1..Len(s) :
                     s[i] \in DigitChars /\ (RunEnd(s, i) > i \/ follows(i))}
    IN  IF starts = {} THEN ""
        ELSE LET i == SetMin(starts)
             IN  IF follows(i) THEN s[RunEnd(s, i) + 1] ELSE s[RunEnd(s, i)]

\* C3: get_date_range returns a window only when the leftmost match has
\* unit h or d; a selector with no match raises the no-match error
\* (RuntimeError) and a match with any other unit character raises the
\* invalid-unit error (ValueError).
C3_SelectorErrors ==
    Resolved =>
        LET unit == LeftmostUnit(last.args[1])
        IN  /\ last.exc = "" => unit \in {"h", "d"}
            /\ unit = "" => last.exc = "RuntimeError"
            /\ unit \notin {"", "h", "d"} => last.exc = "ValueError"

\* "77": the digit run gives back its last digit as the unit; "7w": a letter
\* other than h and d.  Both raise the invalid-unit error.
C3_Witness ==
    /\ Resolved
    /\ last.args[1] \in {<<"7", "7">>, <<"7", "w">>}
    /\ last.exc = "ValueError"

----------------------------------------------------------------------------
\* Shared vocabulary of the properties of the query operations.

CountOf(seq, x) == Cardinality({i \in 1..Len(seq) : seq[i] = x})

IsPermutation(a, b) ==
    /\ Len(a) = Len(b)
    /\ \A i \in 1..Len(a) : CountOf(a, a[i]) = CountOf(b, a[i])

NonIncreasing(keys) == \A i \in 1..(Len(keys) - 1) : keys[i] >= keys[i + 1]

\* The response is a 200 carrying a result envelope.
Success(r) == r.transport = "ok" /\ r.status = 200 /\ r.body.shape = "envelope"

\* The text is [-]digits[.digits].
NumericText(s) == py_float(s).exc = ""

\* The integer a numeric text denotes once its fraction is cut off.
TruncatedTowardZero(s) ==
    LET neg == s[1] = "-"
        body == IF neg THEN Tail(s) ELSE s
        dots == {i \in 1..Len(body) : body[i] = "."}
        k == IF dots = {} THEN Len(body) + 1 ELSE SetMin(dots)
        magnitude == DecimalValue(SubSeq(body, 1, k - 1))
    IN  IF neg THEN 0 - magnitude ELSE magnitude

\* A result item of an instant query with its metric map and a numeric value.
WellFormedSeriesItem(item) == item.hasMetric /\ item.hasValue /\ NumericText(item.value)

\* A result item of a range query with its label map and a list of
\* (integer timestamp, line) pairs.
WellFormedStreamItem(item) ==
    /\ item.hasStream
    /\ item.hasValues
    /\ \A j \in 1..Len(item.values) : item.values[j].pair /\ IsDigits(item.values[j].ts)

HasLabel(metric, label) == \E p \in metric : p[1] = label
LabelValue(metric, label) == (CHOOSE p \in metric : p[1] = label)[2]

----------------------------------------------------------------------------
\* Properties of QueryService (checked under Spec).

\* C4: for every range-query response (any streams in any order, each with
\* any (timestamp, line) pairs in any order) query_loki_raw returns exactly
\* one record per pair, carrying the integer timestamp, the line and the
\* label map of the pair's own stream, ordered by timestamp non-increasing.
C4_FlattenedNewestFirst ==
    (/\ last.op = "query_loki_raw"
     /\ Len(last.sent) = 1
     /\ Success(last.resp)
     /\ \A i \in 1..Len(last.resp.body.result) :
            WellFormedStreamItem(last.resp.body.result[i])) =>
        LET streams == last.resp.body.result
            pairs == UNION {{<<i, j>> : j \in 1..Len(streams[i].values)} :
                              i \in 1..Len(streams)}
            record(p) ==
                [timestamp |-> DecimalValue(streams[p[1]].values[p[2]].ts),
                 message |-> streams[p[1]].values[p[2]].line,
                 labels |-> streams[p[1]].stream]
            lines == last.ret.val
        IN  /\ last.ret.kind = "list"
            /\ Len(lines) = Cardinality(pairs)
            /\ \A p \in pairs :
                  CountOf(lines, record(p)) = Cardinality({q \in pairs : record(q) = record(p)})
            /\ NonIncreasing([i \in 1..Len(lines) |-> lines[i].timestamp])

\* Streams x (100, 300) and y (200) flatten to 300, 200, 100.
C4_Witness ==
    /\ last.op = "query_loki_raw"
    /\ Success(last.resp)
    /\ last.resp.body.result = <<StreamX, StreamY>>
    /\ last.ret.val =
          <<[timestamp |-> 300, message |-> "l3", labels |-> {<<"job", "x">>}],
            [timestamp |-> 200, message |-> "l2", labels |-> {<<"job", "y">>}],
            [timestamp |-> 100, message |-> "l1", labels |-> {<<"job", "x">>}]>>

\* C5: query_prom returns 0 when the result set is empty, and otherwise the
\* first series' value truncated toward zero, whatever the later series hold.
C5_ScalarOfFirstSeries ==
    (last.op = "query_prom" /\ Success(last.resp)) =>
        LET res == last.resp.body.result
        IN  /\ Len(res) = 0 => last.ret = PyInt(0)
            /\ (Len(res) > 0 /\ res[1].hasValue /\ NumericText(res[1].value)) =>
                  last.ret = PyInt(TruncatedTowardZero(res[1].value))

\* A first series of -2.5 followed by a series whose value is no number: -2.
C5_Witness ==
    /\ last.op = "query_prom"
    /\ Success(last.resp)
    /\ last.resp.body.result = <<SeriesC, SeriesBadValue>>
    /\ last.ret = PyInt(0 - 2)

\* What query_top returns for the arguments query_loki stands for.
TopOfMessages == query_top(last.resp, last.args[1], "message", 5, time_selection)

\* C7 as stated: query_loki(expression) sends the same expression as
\* query_top(expression, "message", 5, window) and returns a list of the
\* same length, order and counts with the same label text in every entry,
\* the default text for an absent message label included.
C7_SameAsTopOfMessage ==
    last.op = "query_loki" =>
        /\ last.sent = TopOfMessages.sent
        /\ Len(last.ret.val) = Len(TopOfMessages.ret.val)
        /\ \A i \in 1..Len(last.ret.val) :
              /\ last.ret.val[i].count = TopOfMessages.ret.val[i].count
              /\ last.ret.val[i].message = TopOfMessages.ret.val[i].name

\* C7 amended: the same expression, length, order and counts, and the same
\* label text in every entry whose series carries a message label; for a
\* series without one query_loki gives "No message label found" where
\* query_top gives "Unknown".
C7_SameAsTopOfMessageButDefault ==
    last.op = "query_loki" =>
        /\ last.sent = TopOfMessages.sent
        /\ Len(last.ret.val) = Len(TopOfMessages.ret.val)
        /\ \A i \in 1..Len(last.ret.val) :
              LET metric == last.resp.body.result[i].metric
              IN  /\ last.ret.val[i].count = TopOfMessages.ret.val[i].count
                  /\ IF HasLabel(metric, "message")
                     THEN /\ last.ret.val[i].message = LabelValue(metric, "message")
                          /\ TopOfMessages.ret.val[i].name = LabelValue(metric, "message")
                     ELSE /\ last.ret.val[i].message = "No message label found"
                          /\ TopOfMessages.ret.val[i].name = "Unknown"

\* Series a (3.0) and a series without labels (1.7).
C7_Witness ==
    /\ last.op = "query_loki"
    /\ Success(last.resp)
    /\ last.resp.body.result = <<SeriesA, SeriesB>>
    /\ last.ret.val = <<[count |-> 3, message |-> "a"],
                        [count |-> 1, message |-> "No message label found"]>>

\* C8: the list query_loki_top returns is a permutation of the list
\* query_top returns for the same selector, label, limit and window, ordered
\* by count non-increasing, whatever order the backend delivered.
C8_TopResorted ==
    last.op = "query_loki_top" =>
        LET top == query_top(last.resp, last.args[1], last.args[2], last.args[3],
                             time_selection).ret.val
            entries == last.ret.val
        IN  /\ last.ret.kind = "list"
            /\ IsPermutation(entries, top)
            /\ NonIncreasing([i \in 1..Len(entries) |-> entries[i].count])

\* The backend delivers count 1 before count 3.
C8_Witness ==
    /\ last.op = "query_loki_top"
    /\ last.args[2] = "message"
    /\ Success(last.resp)
    /\ last.resp.body.result = <<SeriesB, SeriesA>>
    /\ last.ret.val = <<[name |-> "a", count |-> 3], [name |-> "Unknown", count |-> 1]>>

ServiceOps == {"query_prom", "query_prom_raw", "query_loki", "query_loki_top", "query_loki_raw"}

\* A backend outcome that is a failure for the operation: a transport
\* failure, a status that is not 2xx, a body that is not JSON, or JSON in
\* which a field the operation reads is missing or wrongly shaped.
BackendFailure(op, r) ==
    \/ r.transport = "fail"
    \/ r.status \notin 200..299
    \/ r.body.shape \in {"html", "array", "datanull"}
    \/ r.body.shape \in {"nodata", "noresult"} /\ op \in {"query_prom", "query_prom_raw"}
    \/ /\ r.body.shape = "envelope"
       /\ CASE op = "query_prom" ->
                  /\ Len(r.body.result) > 0
                  /\ ~(r.body.result[1].hasValue /\ NumericText(r.body.result[1].value))
            [] op \in {"query_loki", "query_loki_top"} ->
                  \E i \in 1..Len(r.body.result) : ~WellFormedSeriesItem(r.body.result[i])
            [] op = "query_loki_raw" ->
                  \E i \in 1..Len(r.body.result) :
                      \E j \in 1..Len(r.body.result[i].values) :
                          ~(r.body.result[i].values[j].pair
                              /\ IsDigits(r.body.result[i].values[j].ts))
            [] OTHER -> FALSE

\* C1 as stated: on every backend failure each of the five operations
\* returns normally; query_prom returns a string containing "Error" and the
\* other four return an empty list.
C1_FailureGivesSafeDefault ==
    (last.op \in ServiceOps /\ BackendFailure(last.op, last.resp)) =>
        /\ last.exc = ""
        /\ last.op = "query_prom" =>
              (last.ret.kind = "str" /\ last.ret.val[1] = "Error: ")
        /\ last.op # "query_prom" => last.ret = PyList(<< >>)

----------------------------------------------------------------------------
\* Properties of LokiClient (checked under SpecGateway).

SecondsInNs(s) == [hi |-> s, lo |-> 0]

\* The transmitted parameter is the nanosecond conversion of the argument: an
\* int of seconds s becomes s * 10^9, a datetime its epoch seconds times
\* 10^9, and None is not transmitted.
Converted(arg, param) ==
    CASE arg.type = "int" -> param = [kind |-> "int", ns |-> SecondsInNs(arg.v)]
      [] arg.type = "datetime" ->
            param = [kind |-> "int", ns |-> SecondsInNs(arg.v * 3600)]
      [] arg.type = "None" -> param.kind = "None"
      [] OTHER -> FALSE

\* C9: every time, start and end parameter that query_raw and query_range
\* transmit is the nanosecond conversion of the caller's timestamp, exactly
\* s * 10^9 for integer seconds s, and an absent time on an instant query
\* transmits no time parameter.
C9_TransmittedNanoseconds ==
    /\ last.op = "query_raw" =>
          \A k \in 1..Len(last.sent) : Converted(last.args[2], last.sent[k].params.time)
    /\ last.op = "query_range" =>
          \A k \in 1..Len(last.sent) :
              /\ Converted(last.args[2], last.sent[k].params.start)
              /\ Converted(last.args[3], last.sent[k].params.end)

\* 1700000000 seconds is transmitted as 1700000000 * 10^9 + 0.
C9_Witness ==
    /\ last.op = "query_raw"
    /\ last.args[2] = TsInt(1700000000)
    /\ Len(last.sent) = 1
    /\ last.sent[1].params.time = [kind |-> "int", ns |-> [hi |-> 1700000000, lo |-> 0]]

\* C10 as stated: a response whose status is not 2xx (1xx and 3xx included)
\* makes query_raw and query_range return an empty list whatever its body.
C10_Non2xxGivesEmptyList ==
    (/\ last.op \in {"query_raw", "query_range"}
     /\ Len(last.sent) = 1
     /\ last.resp.transport = "ok"
     /\ last.resp.status \notin 200..299) =>
        last.ret = PyList(<< >>)

----------------------------------------------------------------------------
\* Properties of repeated calls, of input errors and of the window.

\* The same operation is called again with the same arguments, and the
\* backend would answer as it did before.
SameCallAgain ==
    /\ last.op \in ServiceOps
    /\ last'.op = last.op
    /\ last'.args = last.args
    /\ last'.resp = last.resp

UnsupportedTimestampGiven ==
    \/ last.op = "query_raw" /\ last.args[2] = TsStr
    \/ last.op = "query_range" /\ TsStr \in {last.args[2], last.args[3]}

\* C12 as stated: query_loki_raw on a service whose selector get_date_range
\* rejects raises the selector error, and query_raw / query_range given a
\* timestamp of an unsupported type raise, instead of returning a list.
C12_FatalInputErrorsRaise ==
    /\ (last.op = "query_loki_raw" /\ get_date_range(time_selection, last.now).exc # "") =>
            last.exc = get_date_range(time_selection, last.now).exc
    /\ UnsupportedTimestampGiven => last.exc = "TypeError"

\* C13 as stated: every window get_date_range returns has start < end,
\* selectors with the integer 0 included.
C13_StartStrictlyBeforeEnd ==
    (Resolved /\ last.exc = "") => last.ret.start < last.ret.end

\* What _to_ns transmits for a datetime.
SentDatetime(dt) == to_ns(TsDatetime(dt)).val

\* C14 as stated: within one run every query_loki_raw call uses the
\* (start, end) pair the template globals start_date / end_date hold,
\* however much time passes between construction and the call.
C14_OneWindowPerRun ==
    (last.op = "query_loki_raw" /\ jinja_globals.set /\ Len(last.sent) = 1) =>
        /\ last.sent[1].params.start = SentDatetime(jinja_globals.start_date)
        /\ last.sent[1].params.end = SentDatetime(jinja_globals.end_date)

\* The [window] fragment of the aggregation expression a call sent.
SentWindow == last.sent[1].params.query[8]

\* C16 as stated: for every selector get_date_range accepts, leniently
\* accepted ones such as x7dy included, the window written into the
\* expressions of query_loki and query_loki_top is the resolved
\* <integer><unit> and denotes the duration of the resolved window.
C16_ExpressionCarriesResolvedWindow ==
    (/\ last.op \in {"query_loki", "query_loki_top"}
     /\ Len(last.sent) = 1
     /\ get_date_range(time_selection, last.now).exc = "") =>
        LET range == get_date_range(time_selection, last.now).val
        IN  /\ PlainSelector(SentWindow)
            /\ PlainHours(SentWindow) = range.end - range.start

----------------------------------------------------------------------------
\* Properties of both layers (checked under SpecCore).

GatewayOps == {"query_raw", "query_range", "query_top"}

\* The one request got no usable answer: the transport failed or the status
\* is an error status.
RequestFailed(r) == r.transport = "fail" \/ r.status >= 400

\* What an operation returns when it degrades.
SafeDefault(op, ret) ==
    IF op = "query_prom" THEN ret.kind = "str" /\ ret.val[1] = "Error: "
    ELSE ret = PyList(<< >>)

WellFormedEntry(v) == v.pair /\ IsDigits(v.ts)

\* The response holds an item the operation cannot map.
MalformedItem(op, result) ==
    IF op = "query_loki_raw"
    THEN \E i \in 1..Len(result) :
            \E j \in 1..Len(result[i].values) : ~WellFormedEntry(result[i].values[j])
    ELSE \E i \in 1..Len(result) : ~WellFormedSeriesItem(result[i])

\* C17: when a successful response holds at least one malformed item,
\* query_top, query_loki, query_loki_top and query_loki_raw return the empty
\* list, never the well-formed items alone.
C17_AllOrNothing ==
    (/\ last.op \in {"query_top", "query_loki", "query_loki_top", "query_loki_raw"}
     /\ Success(last.resp)
     /\ MalformedItem(last.op, last.resp.body.result)) =>
        (last.exc = "" /\ last.ret = PyList(<< >>))

\* query_loki got a well-formed series followed by one whose value is not a
\* number and returned nothing.
C17_Witness ==
    /\ last.op = "query_loki"
    /\ Success(last.resp)
    /\ last.resp.body.result = <<SeriesA, SeriesBadValue>>
    /\ last.ret = PyList(<< >>)

====
